---- MODULE Spec2Model ----
(***************************************************************************)
(* A model of the MedRAX Streamlit agent: app.py (the script Streamlit     *)
(* re-runs on every interaction of a session) and tools.py (the two tools  *)
(* handed to the LangChain AgentExecutor).                                  *)
(*                                                                         *)
(* Texts are sequences of word tokens, so that Python's substring test     *)
(* `"segmented_result.png" in response_text` and the f-string that builds  *)
(* the error message are computed, not assumed.  The Chinese literals of   *)
(* the source are written in English.                                      *)
(*                                                                         *)
(* Uploaded files are images, as the uploader's type filter declares.      *)
(***************************************************************************)
EXTENDS Naturals, Sequences, FiniteSets

\* ------------------------------------------------------------ bounds

\* Turns a session submits.
MaxTurns == 2

\* Turns each of two sessions submits when they run side by side.
SharedTurns == 1

\* ------------------------------------------------------------ values

Sessions == {"s1", "s2"}

\* Python's None.
None == "None"

\* Values of the environment variable DEEPSEEK_API_KEY (None: not set).
KeyValues == {None, "", "sk-1"}

\* Python truthiness of an optional string: None and "" are falsy.
Truthy(v) == v # None /\ v # ""

UploadNames == {"a.png"}
ImageData == {"xray1", "xray2"}

\* uploaded_file: None, or an uploaded file with its name and bytes.
NoFile == [name |-> None, data |-> None]
Uploads == [name : UploadNames, data : ImageData]

TEMP_DIR == "temp"

\* os.path.join
PathJoin(dir, name) == dir \o "/" \o name

\* The file name segment_image_tool saves to and app.py looks for.
ARTIFACT == "segmented_result.png"

\* A path naming no file, as a Planner may pass to a tool.
MissingPath == "temp/none.png"

Paths == {PathJoin(TEMP_DIR, n) : n \in UploadNames} \cup {ARTIFACT, MissingPath}

\* Content of a path with no file.
Absent == "absent"

\* Image.save(path) with a .png name: the image re-encoded as PNG.
SavePng(data) == "png:" \o data

\* The user's input texts.
Prompts == {<<"is", "it", "normal?">>, <<"where", "is", "it?">>}

\* Python's `token in text`, on word tokens.
Contains(text, token) == \E i \in DOMAIN text : text[i] = token

\* ------------------------------------------------------------ tools.py

\* analysis_result of classify_lesion_tool.
ClassifyReport == <<"report:", "8mm", "nodule", "(GGO)">>

\* classify_lesion_tool whose report depends on what an earlier
\* segment_image_tool call left behind.
classify_lesion_tool_remembers(image_path, fs) ==
    [kind |-> "return",
     text |-> IF fs[ARTIFACT] = Absent THEN ClassifyReport
              ELSE <<"report:", "already", "segmented">>,
     fs |-> fs]

\* classify_lesion_tool: returns the fixed report; reads and writes no file.
classify_lesion_tool(image_path, fs) ==
    [kind |-> "return", text |-> ClassifyReport, fs |-> fs]

\* segment_image_tool without its try/except: the exception leaves the tool.
segment_image_tool_unguarded(image_path, lesion_description, fs, canSave) ==
    IF fs[image_path] = Absent \/ ~canSave
    THEN [kind |-> "raise", text |-> <<"cannot", "open", image_path>>, fs |-> fs]
    ELSE [kind |-> "return", text |-> <<ARTIFACT>>,
          fs |-> [fs EXCEPT ![ARTIFACT] = SavePng(fs[image_path])]]

\* segment_image_tool returning the new path without having saved the file.
segment_image_tool_noSave(image_path, lesion_description, fs, canSave) ==
    IF fs[image_path] = Absent \/ ~canSave
    THEN [kind |-> "return",
          text |-> <<"error:", "cannot", "process", "image", image_path>>,
          fs |-> fs]
    ELSE [kind |-> "return", text |-> <<ARTIFACT>>, fs |-> fs]

\* segment_image_tool: Image.open(image_path), save as ARTIFACT, return the
\* new path; any exception of the two is caught and an error text returned.
\* canSave: whether the working directory accepts the write.
segment_image_tool(image_path, lesion_description, fs, canSave) ==
    IF fs[image_path] = Absent \/ ~canSave
    THEN [kind |-> "return",
          text |-> <<"error:", "cannot", "process", "image", image_path>>,
          fs |-> fs]
    ELSE [kind |-> "return", text |-> <<ARTIFACT>>,
          fs |-> [fs EXCEPT ![ARTIFACT] = SavePng(fs[image_path])]]

all_tools == {"classify_lesion_tool", "segment_image_tool"}

\* ------------------------------------------------------------ state

VARIABLES
    open,            \* the sessions with a browser tab open
    apiKey,          \* os.environ["DEEPSEEK_API_KEY"]
    files,           \* the file system: path -> content
    uploaded_file,   \* per session: the file_uploader's value
    messages,        \* per session: st.session_state.messages
    agent_history,   \* per session: st.session_state.agent_history
    display,         \* per session: what the current script run has rendered
    pc,              \* per session: the state of the current turn
    prompt,          \* per session: the chat_input text of the current turn
    agent_executor,  \* per session: None or the AgentExecutor of this script run
    agent_input,     \* per session: the dict passed to agent_executor.invoke
    planner,         \* per session: how the Planner behaves in this run
    scratchpad,      \* per session: intermediate_steps of the running invoke
    iterations,      \* per session: the executor's iteration counter
    plannerCalls,    \* per session: Planner calls made by the running invoke
    outcome,         \* per session: what invoke returned or raised
    trace,           \* per session: the turns ended so far, with their outcome
    segmented        \* per session: the running invoke has saved the artifact

vars == <<open, apiKey, files, uploaded_file, messages, agent_history, display,
          pc, prompt, agent_executor, agent_input, planner, scratchpad,
          iterations, plannerCalls, outcome, trace, segmented>>

\* ------------------------------------------------------------ the Planner

\* A ToolCall as the Planner returns it.
ClassifyCall(image_path) ==
    [tool |-> "classify_lesion_tool", args |-> [image_path |-> image_path]]

SegmentCall(image_path, lesion_description) ==
    [tool |-> "segment_image_tool",
     args |-> [image_path |-> image_path, lesion_description |-> lesion_description]]

Final(text) == [kind |-> "final", text |-> text, calls |-> <<>>]
ToolCalls(calls) == [kind |-> "tools", text |-> <<>>, calls |-> calls]
Raise(text) == [kind |-> "raise", text |-> text, calls |-> <<>>]

\* The observation of the last (ToolCall, ToolResult) pair of a scratchpad.
LastText(pad) == IF pad = <<>> THEN <<>> ELSE pad[Len(pad)].result

\* The ways the language model behind the agent is taken to behave in a run.
PlannerKinds == {"answer", "classify", "classify_token", "segment",
                 "segment_badpath", "loop", "raise", "classify_raise",
                 "unknown_tool", "missing_arg", "batch"}

\* A tool name that is not in all_tools.
UnknownToolName == "locate_lesion_tool"

\* agent.plan: the Planner's decision for the prompt filled from agent_input
\* (chat_history, input, image_path) and the scratchpad so far.
Planner(kind, input, image_path, chat_history, pad) ==
    CASE kind = "answer" -> Final(<<"looks", "normal">>)
      [] kind = "classify" ->
            IF Len(pad) = 0 THEN ToolCalls(<<ClassifyCall(image_path)>>)
            ELSE Final(<<"finding:">> \o LastText(pad))
      [] kind = "classify_token" ->
            IF Len(pad) = 0 THEN ToolCalls(<<ClassifyCall(image_path)>>)
            ELSE Final(<<"marked", "image:", ARTIFACT>>)
      [] kind = "segment" ->
            IF Len(pad) = 0 THEN ToolCalls(<<ClassifyCall(image_path)>>)
            ELSE IF Len(pad) = 1
                 THEN ToolCalls(<<SegmentCall(image_path, LastText(pad))>>)
                 ELSE Final(<<"marked", "image:">> \o LastText(pad))
      [] kind = "segment_badpath" ->
            IF Len(pad) = 0 THEN ToolCalls(<<SegmentCall(MissingPath, <<"nodule">>)>>)
            ELSE Final(<<"result:">> \o LastText(pad))
      [] kind = "loop" -> ToolCalls(<<ClassifyCall(image_path)>>)
      [] kind = "raise" -> Raise(<<"connection", "error">>)
      [] kind = "classify_raise" ->
            IF Len(pad) = 0 THEN ToolCalls(<<ClassifyCall(image_path)>>)
            ELSE Raise(<<"connection", "error">>)
      [] kind = "unknown_tool" ->
            IF Len(pad) = 0
            THEN ToolCalls(<<[tool |-> UnknownToolName,
                              args |-> [image_path |-> image_path]]>>)
            ELSE Final(<<"sorry:">> \o LastText(pad))
      [] kind = "missing_arg" ->
            IF Len(pad) = 0
            THEN ToolCalls(<<[tool |-> "segment_image_tool",
                              args |-> [image_path |-> image_path]]>>)
            ELSE Final(<<"result:">> \o LastText(pad))
      [] kind = "batch" ->
            IF Len(pad) = 0
            THEN ToolCalls(<<ClassifyCall(image_path),
                             SegmentCall(image_path, <<"nodule">>),
                             ClassifyCall(image_path)>>)
            ELSE Final(<<"finding:">> \o LastText(pad))

\* ------------------------------------------------------------ the AgentExecutor

\* AgentExecutor(agent=agent, tools=tools, verbose=True): max_iterations is
\* left at its default.
max_iterations == 15

\* early_stopping_method is left at its default, "force": at the iteration
\* limit invoke returns this text as its output.
StoppedText == <<"Agent", "stopped", "due", "to", "max", "iterations.">>

\* The response with the limit raised as an error instead.
StoppedResponse_raises ==
    [kind |-> "raise", text |-> <<"iteration", "limit", "exceeded">>, by |-> "stopped"]

\* return_stopped_response under "force": an output, not an exception.
StoppedResponse == [kind |-> "output", text |-> StoppedText, by |-> "stopped"]

\* The loop condition admitting one iteration more.
ShouldContinue_offByOne(n) == n <= max_iterations

\* The loop condition of the executor.
ShouldContinue(n) == n < max_iterations

\* The parameters of each tool's signature, all required.
RequiredArgs(tool) ==
    IF tool = "classify_lesion_tool" THEN {"image_path"}
    ELSE {"image_path", "lesion_description"}

\* The observation the executor records for a tool name it does not know.
InvalidToolText(name) == <<name, "is", "not", "a", "valid", "tool">>

\* The text of the validation error of a call that lacks required arguments.
ValidationErrorText(tool) == <<"validation", "error", "for", tool>>

\* RunTool turning a failed argument validation into an observation.
RunTool_handlesValidation(call, fs, canSave) ==
    IF call.tool \notin all_tools
    THEN [kind |-> "return", text |-> InvalidToolText(call.tool), fs |-> fs,
          by |-> "executor"]
    ELSE IF ~(RequiredArgs(call.tool) \subseteq DOMAIN call.args)
    THEN [kind |-> "return", text |-> ValidationErrorText(call.tool), fs |-> fs,
          by |-> "validation"]
    ELSE LET r == IF call.tool = "classify_lesion_tool"
                  THEN classify_lesion_tool(call.args.image_path, fs)
                  ELSE segment_image_tool(call.args.image_path,
                                          call.args.lesion_description, fs, canSave)
         IN  [kind |-> r.kind, text |-> r.text, fs |-> r.fs, by |-> "tool"]

\* The executor runs one ToolCall.  A name that is not a tool's gives the
\* invalid-tool observation; a call of a tool is validated against the
\* tool's signature first, and a failed validation is raised (the tools are
\* built by @tool, which leaves handle_validation_error off); else the tool
\* runs with the call's arguments.
RunTool(call, fs, canSave) ==
    IF call.tool \notin all_tools
    THEN [kind |-> "return", text |-> InvalidToolText(call.tool), fs |-> fs,
          by |-> "executor"]
    ELSE IF ~(RequiredArgs(call.tool) \subseteq DOMAIN call.args)
    THEN [kind |-> "raise", text |-> ValidationErrorText(call.tool), fs |-> fs,
          by |-> "validation"]
    ELSE LET r == IF call.tool = "classify_lesion_tool"
                  THEN classify_lesion_tool(call.args.image_path, fs)
                  ELSE segment_image_tool(call.args.image_path,
                                          call.args.lesion_description, fs, canSave)
         IN  [kind |-> r.kind, text |-> r.text, fs |-> r.fs, by |-> "tool"]

\* RunCalls putting each new (ToolCall, ToolResult) in front of the scratchpad.
RECURSIVE RunCalls_prepends(_, _, _, _)
RunCalls_prepends(calls, pad, fs, canSave) ==
    IF calls = <<>>
    THEN [raised |-> FALSE, text |-> <<>>, pad |-> pad, fs |-> fs, by |-> "none"]
    ELSE LET r == RunTool(Head(calls), fs, canSave) IN
         IF r.kind = "raise"
         THEN [raised |-> TRUE, text |-> r.text, pad |-> pad, fs |-> r.fs,
               by |-> r.by]
         ELSE RunCalls_prepends(Tail(calls),
                                <<[call |-> Head(calls), result |-> r.text]>> \o pad,
                                r.fs, canSave)

\* The executor runs the ToolCalls of one Planner turn in the order returned
\* and appends each (ToolCall, ToolResult) to the scratchpad; a tool that
\* raises ends the run.
RECURSIVE RunCalls(_, _, _, _)
RunCalls(calls, pad, fs, canSave) ==
    IF calls = <<>>
    THEN [raised |-> FALSE, text |-> <<>>, pad |-> pad, fs |-> fs, by |-> "none"]
    ELSE LET r == RunTool(Head(calls), fs, canSave) IN
         IF r.kind = "raise"
         THEN [raised |-> TRUE, text |-> r.text, pad |-> pad, fs |-> r.fs,
               by |-> r.by]
         ELSE RunCalls(Tail(calls),
                       Append(pad, [call |-> Head(calls), result |-> r.text]),
                       r.fs, canSave)

NoOutcome == [kind |-> "none", text |-> <<>>, by |-> "none"]
NoInput == [input |-> <<>>, image_path |-> None, chat_history |-> <<>>]

\* ------------------------------------------------------------ app.py

\* The f-string "Agent 执行出错: {e}".
ErrorPrefix == "Agent error:"
ErrorMsg(e) == <<ErrorPrefix>> \o e

NoImageWarning == <<"upload", "an", "X-ray", "first">>
NotConfiguredError == <<"executor", "not", "initialised,", "check", "the", "API", "key">>

HumanMessage(content) == [type |-> "human", content |-> content]
AIMessage(content) == [type |-> "ai", content |-> content]

\* The states of a turn in which the script is not running.
Resting == {"idle", "completed", "rejected", "failed"}

\* BuildExecutor testing `is not None` instead of truthiness.
BuildExecutor_unlessNone(key) == IF key # None THEN "AgentExecutor" ELSE None

\* Lines 35-83: the executor is built when the key is truthy.
BuildExecutor(key) == IF Truthy(key) THEN "AgentExecutor" ELSE None

\* Lines 115-121: the transcript loop renders every stored message.
Replay(msgs) == msgs

\* Lines 164-165 with the HumanMessage forgotten.
MemoryAfterAnswer_assistantOnly(history, input, response_text) ==
    Append(history, AIMessage(response_text))

\* Lines 164-165: the exchange is appended to agent_history.
MemoryAfterAnswer(history, input, response_text) ==
    Append(Append(history, HumanMessage(input)), AIMessage(response_text))

\* Lines 171-174 without the os.path.exists test.
NewImagePath_unchecked(response_text, fs) ==
    IF Contains(response_text, ARTIFACT) THEN ARTIFACT ELSE None

\* Lines 171-174: the artifact's path when the answer names it and the file
\* exists, else None.
NewImagePath(response_text, fs) ==
    IF Contains(response_text, ARTIFACT) /\ fs[ARTIFACT] # Absent
    THEN ARTIFACT ELSE None

\* Line 190 left out: the error is rendered and not stored.
MessagesAfterFailure_notStored(msgs, error_msg) == msgs

\* Line 190 storing the error message in place of the turn's user message.
MessagesAfterFailure_replacesUser(msgs, error_msg) ==
    Append(SubSeq(msgs, 1, Len(msgs) - 1),
           [role |-> "assistant", content |-> error_msg])

\* Line 190: the error message is stored as an assistant message.
MessagesAfterFailure(msgs, error_msg) ==
    Append(msgs, [role |-> "assistant", content |-> error_msg])

\* A turn ends: its outcome is logged and the script's locals are gone.
EndTurn(s, state, text) ==
    /\ pc' = [pc EXCEPT ![s] = state]
    /\ trace' = [trace EXCEPT ![s] =
                   Append(@, [input |-> prompt[s], outcome |-> state, text |-> text,
                              by |-> outcome[s].by])]
    /\ prompt' = [prompt EXCEPT ![s] = <<>>]
    /\ agent_input' = [agent_input EXCEPT ![s] = NoInput]
    /\ planner' = [planner EXCEPT ![s] = None]
    /\ outcome' = [outcome EXCEPT ![s] = NoOutcome]
    /\ segmented' = [segmented EXCEPT ![s] = FALSE]
    /\ iterations' = [iterations EXCEPT ![s] = 0]
    /\ plannerCalls' = [plannerCalls EXCEPT ![s] = 0]

Init ==
    /\ open = {"s1"}
    /\ apiKey \in KeyValues
    /\ files = [p \in Paths |-> Absent]
    /\ uploaded_file = [s \in Sessions |-> NoFile]
    /\ messages = [s \in Sessions |-> <<>>]
    /\ agent_history = [s \in Sessions |-> <<>>]
    /\ display = [s \in Sessions |-> <<>>]
    /\ pc = [s \in Sessions |-> "idle"]
    /\ prompt = [s \in Sessions |-> <<>>]
    /\ agent_executor = [s \in Sessions |-> None]
    /\ agent_input = [s \in Sessions |-> NoInput]
    /\ planner = [s \in Sessions |-> None]
    /\ scratchpad = [s \in Sessions |-> <<>>]
    /\ iterations = [s \in Sessions |-> 0]
    /\ plannerCalls = [s \in Sessions |-> 0]
    /\ outcome = [s \in Sessions |-> NoOutcome]
    /\ trace = [s \in Sessions |-> <<>>]
    /\ segmented = [s \in Sessions |-> FALSE]

\* chat_history holding the current input as a Turn already.
ChatHistory_withInput(history, input) == Append(history, HumanMessage(input))

\* Line 155: "chat_history": st.session_state.agent_history.
ChatHistory(history, input) == history

\* The turn going on without writing the upload to its temporary path.
SaveUpload_skipped(fs, temp_image_path, upload) == fs

\* Lines 139-140: open(temp_image_path, "wb") and write uploaded_file.getbuffer().
SaveUpload(fs, temp_image_path, upload) ==
    [fs EXCEPT ![temp_image_path] = upload.data]

\* The user picks a file in the uploader (or replaces the one picked): the
\* script re-runs with no chat input and renders the transcript.
Upload(s, f) ==
    /\ s \in open
    /\ pc[s] \in Resting
    /\ f # uploaded_file[s]
    /\ uploaded_file' = [uploaded_file EXCEPT ![s] = f]
    /\ agent_executor' = [agent_executor EXCEPT ![s] = BuildExecutor(apiKey)]
    /\ display' = [display EXCEPT ![s] = Replay(messages[s])]
    /\ pc' = [pc EXCEPT ![s] = "idle"]
    /\ UNCHANGED <<open, apiKey, files, messages, agent_history, prompt, agent_input,
                   planner, scratchpad, iterations, plannerCalls, outcome, trace,
                   segmented>>

\* The user submits a text in the chat input: the script re-runs from the
\* top (key read, executor built or not, transcript rendered) and reaches
\* the handler with the text.
Submit(s, p) ==
    /\ s \in open
    /\ pc[s] \in Resting
    /\ Len(trace[s]) < MaxTurns
    /\ agent_executor' = [agent_executor EXCEPT ![s] = BuildExecutor(apiKey)]
    /\ display' = [display EXCEPT ![s] = Replay(messages[s])]
    /\ prompt' = [prompt EXCEPT ![s] = p]
    /\ pc' = [pc EXCEPT ![s] = "validating"]
    /\ UNCHANGED <<open, apiKey, files, uploaded_file, messages, agent_history,
                   agent_input, planner, scratchpad, iterations, plannerCalls,
                   outcome, trace, segmented>>

\* Check 1 made after the user message was stored.
RejectNoImage_afterUserMessage(s) ==
    /\ pc[s] = "validating"
    /\ uploaded_file[s] = NoFile
    /\ display' = [display EXCEPT ![s] =
                     Append(@, [role |-> "warning", content |-> NoImageWarning])]
    /\ EndTurn(s, "rejected", NoImageWarning)
    /\ messages' = [messages EXCEPT ![s] =
                      Append(@, [role |-> "user", content |-> prompt[s]])]
    /\ UNCHANGED <<open, apiKey, files, uploaded_file, agent_history,
                   agent_executor, scratchpad>>

\* Check 1 fails: no file is uploaded.
RejectNoImage(s) ==
    /\ pc[s] = "validating"
    /\ uploaded_file[s] = NoFile
    /\ display' = [display EXCEPT ![s] =
                     Append(@, [role |-> "warning", content |-> NoImageWarning])]
    /\ EndTurn(s, "rejected", NoImageWarning)
    /\ UNCHANGED <<open, apiKey, files, uploaded_file, messages, agent_history,
                   agent_executor, scratchpad>>

\* Check 2 fails: a file is uploaded and no executor was built.
RejectNotConfigured(s) ==
    /\ pc[s] = "validating"
    /\ uploaded_file[s] # NoFile
    /\ agent_executor[s] = None
    /\ display' = [display EXCEPT ![s] =
                     Append(@, [role |-> "error", content |-> NotConfiguredError])]
    /\ EndTurn(s, "rejected", NotConfiguredError)
    /\ UNCHANGED <<open, apiKey, files, uploaded_file, messages, agent_history,
                   agent_executor, scratchpad>>

\* Prepare appending the user Turn to agent_history before invoke as well.
Prepare_appendsUserTurn(s, kind) ==
    /\ pc[s] = "validating"
    /\ uploaded_file[s] # NoFile
    /\ agent_executor[s] # None
    /\ LET temp_image_path == PathJoin(TEMP_DIR, uploaded_file[s].name) IN
         /\ files' = SaveUpload(files, temp_image_path, uploaded_file[s])
         /\ agent_input' = [agent_input EXCEPT ![s] =
                              [input |-> prompt[s],
                               image_path |-> temp_image_path,
                               chat_history |->
                                   ChatHistory(agent_history[s], prompt[s])]]
    /\ messages' = [messages EXCEPT ![s] =
                      Append(@, [role |-> "user", content |-> prompt[s]])]
    /\ display' = [display EXCEPT ![s] =
                     Append(@, [role |-> "user", content |-> prompt[s]])]
    /\ planner' = [planner EXCEPT ![s] = kind]
    /\ scratchpad' = [scratchpad EXCEPT ![s] = <<>>]
    /\ iterations' = [iterations EXCEPT ![s] = 0]
    /\ plannerCalls' = [plannerCalls EXCEPT ![s] = 0]
    /\ outcome' = [outcome EXCEPT ![s] = NoOutcome]
    /\ segmented' = [segmented EXCEPT ![s] = FALSE]
    /\ pc' = [pc EXCEPT ![s] = "running"]
    /\ agent_history' = [agent_history EXCEPT ![s] =
                           Append(@, HumanMessage(prompt[s]))]
    /\ UNCHANGED <<open, apiKey, uploaded_file, prompt, agent_executor, trace>>

\* Both checks pass: the upload is written under TEMP_DIR, the user message
\* is stored for display and rendered, agent_input is built and invoke is
\* entered with an empty scratchpad.
Prepare(s, kind) ==
    /\ pc[s] = "validating"
    /\ uploaded_file[s] # NoFile
    /\ agent_executor[s] # None
    /\ LET temp_image_path == PathJoin(TEMP_DIR, uploaded_file[s].name) IN
         /\ files' = SaveUpload(files, temp_image_path, uploaded_file[s])
         /\ agent_input' = [agent_input EXCEPT ![s] =
                              [input |-> prompt[s],
                               image_path |-> temp_image_path,
                               chat_history |->
                                   ChatHistory(agent_history[s], prompt[s])]]
    /\ messages' = [messages EXCEPT ![s] =
                      Append(@, [role |-> "user", content |-> prompt[s]])]
    /\ display' = [display EXCEPT ![s] =
                     Append(@, [role |-> "user", content |-> prompt[s]])]
    /\ planner' = [planner EXCEPT ![s] = kind]
    /\ scratchpad' = [scratchpad EXCEPT ![s] = <<>>]
    /\ iterations' = [iterations EXCEPT ![s] = 0]
    /\ plannerCalls' = [plannerCalls EXCEPT ![s] = 0]
    /\ outcome' = [outcome EXCEPT ![s] = NoOutcome]
    /\ segmented' = [segmented EXCEPT ![s] = FALSE]
    /\ pc' = [pc EXCEPT ![s] = "running"]
    /\ UNCHANGED <<open, apiKey, uploaded_file, agent_history, prompt,
                   agent_executor, trace>>

\* Whether an entry of pad after the first n is a segment_image_tool call
\* that returned the artifact's path, that is, saved the file (tools.py:68-72).
SavedArtifact(pad, n) ==
    \E i \in (n + 1)..Len(pad) :
        /\ pad[i].call.tool = "segment_image_tool"
        /\ pad[i].result = <<ARTIFACT>>

\* One iteration of the executor's loop: the Planner is called with the
\* scratchpad so far; a final answer or an exception ends invoke, and tool
\* calls are run and appended.  The scratchpad is local to invoke and is
\* gone when invoke ends.
PlanStep(s) ==
    /\ pc[s] = "running"
    /\ outcome[s].kind = "none"
    /\ ShouldContinue(iterations[s])
    /\ plannerCalls' = [plannerCalls EXCEPT ![s] = @ + 1]
    /\ LET d == Planner(planner[s], agent_input[s].input, agent_input[s].image_path,
                        agent_input[s].chat_history, scratchpad[s]) IN
         \/ /\ d.kind = "final"
            /\ outcome' = [outcome EXCEPT ![s] =
                             [kind |-> "output", text |-> d.text, by |-> "final"]]
            /\ scratchpad' = [scratchpad EXCEPT ![s] = <<>>]
            /\ UNCHANGED <<files, iterations, segmented>>
         \/ /\ d.kind = "raise"
            /\ outcome' = [outcome EXCEPT ![s] =
                             [kind |-> "raise", text |-> d.text, by |-> "planner"]]
            /\ scratchpad' = [scratchpad EXCEPT ![s] = <<>>]
            /\ UNCHANGED <<files, iterations, segmented>>
         \/ /\ d.kind = "tools"
            /\ \E canSave \in BOOLEAN :
                 LET r == RunCalls(d.calls, scratchpad[s], files, canSave) IN
                   /\ files' = r.fs
                   /\ segmented' = [segmented EXCEPT ![s] =
                                       @ \/ SavedArtifact(r.pad, Len(scratchpad[s]))]
                   /\ IF r.raised
                      THEN /\ outcome' = [outcome EXCEPT ![s] =
                                            [kind |-> "raise", text |-> r.text,
                                             by |-> r.by]]
                           /\ scratchpad' = [scratchpad EXCEPT ![s] = <<>>]
                           /\ UNCHANGED iterations
                      ELSE /\ scratchpad' = [scratchpad EXCEPT ![s] = r.pad]
                           /\ iterations' = [iterations EXCEPT ![s] = @ + 1]
                           /\ UNCHANGED outcome
    /\ UNCHANGED <<open, apiKey, uploaded_file, messages, agent_history, display,
                   pc, prompt, agent_executor, agent_input, planner, trace>>

\* The loop's condition fails: invoke returns the stopped response.
StopStep(s) ==
    /\ pc[s] = "running"
    /\ outcome[s].kind = "none"
    /\ ~ShouldContinue(iterations[s])
    /\ outcome' = [outcome EXCEPT ![s] = StoppedResponse]
    /\ scratchpad' = [scratchpad EXCEPT ![s] = <<>>]
    /\ UNCHANGED <<open, apiKey, files, uploaded_file, messages, agent_history,
                   display, pc, prompt, agent_executor, agent_input, planner,
                   iterations, plannerCalls, trace, segmented>>

\* Lines 161-185: invoke returned.  The exchange is appended to
\* agent_history, the answer is scanned for the artifact's name and the
\* assistant message is rendered and stored, with the image when found.
Respond(s) ==
    /\ pc[s] = "running"
    /\ outcome[s].kind = "output"
    /\ LET response_text == outcome[s].text
           new_image_path == NewImagePath(response_text, files)
           ui_message ==
               IF new_image_path # None
               THEN [role |-> "assistant", content |-> response_text,
                     image_path |-> new_image_path]
               ELSE [role |-> "assistant", content |-> response_text]
       IN  /\ agent_history' = [agent_history EXCEPT ![s] =
                                  MemoryAfterAnswer(@, prompt[s], response_text)]
           /\ display' = [display EXCEPT ![s] = Append(@, ui_message)]
           /\ messages' = [messages EXCEPT ![s] = Append(@, ui_message)]
           /\ EndTurn(s, "completed", response_text)
    /\ UNCHANGED <<open, apiKey, files, uploaded_file, agent_executor, scratchpad>>

\* The except block appending the error to agent_history as an assistant Turn.
Fail_storesInMemory(s) ==
    /\ pc[s] = "running"
    /\ outcome[s].kind = "raise"
    /\ LET error_msg == ErrorMsg(outcome[s].text) IN
         /\ display' = [display EXCEPT ![s] =
                          Append(@, [role |-> "error", content |-> error_msg])]
         /\ messages' = [messages EXCEPT ![s] = MessagesAfterFailure(@, error_msg)]
         /\ EndTurn(s, "failed", error_msg)
    /\ agent_history' = [agent_history EXCEPT ![s] =
                           Append(@, AIMessage(ErrorMsg(outcome[s].text)))]
    /\ UNCHANGED <<open, apiKey, files, uploaded_file, agent_executor, scratchpad>>

\* Lines 187-190: invoke raised.  The error message is rendered and stored
\* in messages as an assistant message.
Fail(s) ==
    /\ pc[s] = "running"
    /\ outcome[s].kind = "raise"
    /\ LET error_msg == ErrorMsg(outcome[s].text) IN
         /\ display' = [display EXCEPT ![s] =
                          Append(@, [role |-> "error", content |-> error_msg])]
         /\ messages' = [messages EXCEPT ![s] = MessagesAfterFailure(@, error_msg)]
         /\ EndTurn(s, "failed", error_msg)
    /\ UNCHANGED <<open, apiKey, files, uploaded_file, agent_history,
                   agent_executor, scratchpad>>

\* The process is started again with another value of DEEPSEEK_API_KEY: the
\* sessions' state is gone, the files stay.
Restart(key) ==
    /\ key # apiKey
    /\ \A s \in open : pc[s] \in Resting
    /\ apiKey' = key
    /\ uploaded_file' = [s \in Sessions |-> NoFile]
    /\ messages' = [s \in Sessions |-> <<>>]
    /\ agent_history' = [s \in Sessions |-> <<>>]
    /\ display' = [s \in Sessions |-> <<>>]
    /\ pc' = [s \in Sessions |-> "idle"]
    /\ agent_executor' = [s \in Sessions |-> None]
    /\ trace' = [s \in Sessions |-> <<>>]
    /\ UNCHANGED <<open, files, prompt, agent_input, planner, scratchpad,
                   iterations, plannerCalls, outcome, segmented>>

Next ==
    \/ \E s \in Sessions, f \in Uploads \cup {NoFile} : Upload(s, f)
    \/ \E s \in Sessions, p \in Prompts : Submit(s, p)
    \/ \E s \in Sessions : RejectNoImage(s)
    \/ \E s \in Sessions : RejectNotConfigured(s)
    \/ \E s \in Sessions, kind \in PlannerKinds : Prepare(s, kind)
    \/ \E s \in Sessions : PlanStep(s)
    \/ \E s \in Sessions : StopStep(s)
    \/ \E s \in Sessions : Respond(s)
    \/ \E s \in Sessions : Fail(s)
    \/ \E key \in KeyValues : Restart(key)

Spec == Init /\ [][Next]_vars

\* ------------------------------------------------------------ claims

Last(seq) == seq[Len(seq)]
Front(seq) == SubSeq(seq, 1, Len(seq) - 1)
Range(seq) == {seq[i] : i \in DOMAIN seq}

\* The Turns of the completed turns of a log of ended turns, in order.
RECURSIVE Exchanges(_)
Exchanges(tr) ==
    IF tr = <<>> THEN <<>>
    ELSE (IF Head(tr).outcome = "completed"
          THEN <<HumanMessage(Head(tr).input), AIMessage(Head(tr).text)>>
          ELSE <<>>) \o Exchanges(Tail(tr))

NCompleted(tr) == Cardinality({i \in DOMAIN tr : tr[i].outcome = "completed"})

IsErrorMsg(text) == text # <<>> /\ text[1] = ErrorPrefix

\* C1: in every state agent_history holds exactly 2N Turns, N the number of
\* completed turns of the session: the user Turn then the assistant Turn of
\* each completed turn, in the order the turns were submitted; rejected and
\* failed turns contribute nothing.
C1_MemoryIsCompletedExchanges ==
    \A s \in Sessions :
        /\ Len(agent_history[s]) = 2 * NCompleted(trace[s])
        /\ agent_history[s] = Exchanges(trace[s])

\* C1 witness: a session whose first turn failed and whose second turn
\* completed, with the two Turns of the second in memory.
C1_Witness ==
    \E s \in Sessions :
        /\ Len(trace[s]) = 2
        /\ trace[s][1].outcome = "failed"
        /\ trace[s][2].outcome = "completed"
        /\ Len(agent_history[s]) = 2

\* C2 (as claimed): the error text of a failed turn is kept in no session
\* log, neither agent_history nor the displayed messages list.
C2_ErrorStoredNowhere ==
    \A s \in Sessions : \A i \in DOMAIN trace[s] :
        trace[s][i].outcome = "failed" =>
            /\ \A j \in DOMAIN agent_history[s] :
                   agent_history[s][j].content # trace[s][i].text
            /\ \A j \in DOMAIN messages[s] :
                   messages[s][j].content # trace[s][i].text

\* C2 (amended): a failed turn appends nothing to agent_history, which never
\* holds an error text; its error message is rendered, is stored in the
\* displayed messages list as an assistant message, and is therefore on the
\* page again in every later script run of the session.
C2_ErrorKeptInTranscriptOnly ==
    \A s \in Sessions :
        /\ \A j \in DOMAIN agent_history[s] : ~IsErrorMsg(agent_history[s][j].content)
        /\ \A i \in DOMAIN trace[s] :
               trace[s][i].outcome = "failed" =>
                   /\ IsErrorMsg(trace[s][i].text)
                   /\ [role |-> "assistant", content |-> trace[s][i].text]
                          \in Range(messages[s])
                   /\ \E j \in DOMAIN display[s] :
                          display[s][j].content = trace[s][i].text
        /\ (trace[s] # <<>> /\ Last(trace[s]).outcome = "failed" /\ pc[s] = "failed") =>
               /\ agent_history[s] = Exchanges(Front(trace[s]))
               /\ Last(display[s]) = [role |-> "error", content |-> Last(trace[s]).text]

\* C2 witness: the turn after a failed one is running and the page shows
\* the failed turn's error message, replayed from the messages list.
C2_Witness ==
    \E s \in Sessions :
        /\ Len(trace[s]) = 1
        /\ trace[s][1].outcome = "failed"
        /\ pc[s] = "running"
        /\ [role |-> "assistant", content |-> trace[s][1].text] \in Range(display[s])

\* C3 (as claimed): while the executor runs, the user Turn of the running
\* turn is the last Turn of agent_history.
C3_UserTurnInMemoryBeforeInvoke ==
    \A s \in Sessions :
        pc[s] = "running" =>
            /\ agent_history[s] # <<>>
            /\ Last(agent_history[s]) = HumanMessage(prompt[s])

\* C3 (amended): before invoke the user message is appended to the
\* displayed messages list, and stays there when the run fails;
\* agent_history is as it was when the turn started for as long as the turn
\* runs and after it failed, so it holds the user Turn of completed turns only.
C3_UserMessageInTranscriptBeforeInvoke ==
    \A s \in Sessions :
        /\ pc[s] = "running" =>
               /\ Last(messages[s]) = [role |-> "user", content |-> prompt[s]]
               /\ agent_history[s] = agent_input[s].chat_history
               /\ agent_history[s] = Exchanges(trace[s])
        /\ pc[s] = "failed" =>
               /\ Len(messages[s]) >= 2
               /\ messages[s][Len(messages[s]) - 1] =
                      [role |-> "user", content |-> Last(trace[s]).input]
               /\ agent_history[s] = Exchanges(Front(trace[s]))

\* C3 witness: a second turn failed after a completed first one; the
\* transcript holds its user message and memory only the first exchange.
C3_Witness ==
    \E s \in Sessions :
        /\ pc[s] = "failed"
        /\ Len(trace[s]) = 2
        /\ trace[s][1].outcome = "completed"
        /\ trace[s][1].input # trace[s][2].input
        /\ Len(messages[s]) = 4
        /\ Len(agent_history[s]) = 2

\* C4: a turn submitted with no file uploaded ends rejected with the NoImage
\* warning, whatever the input, the session's logs and the key: the step
\* that ends it renders the warning and leaves the file system, the messages
\* list and agent_history as they were, and the executor makes no Planner call.
C4_NoImageRejects ==
    [][\A s \in Sessions :
          (pc[s] = "validating" /\ uploaded_file[s] = NoFile /\ pc'[s] # pc[s]) =>
              /\ pc'[s] = "rejected"
              /\ Last(trace'[s]).text = NoImageWarning
              /\ Last(trace'[s]).input = prompt[s]
              /\ display'[s] = Append(display[s],
                                      [role |-> "warning", content |-> NoImageWarning])
              /\ files' = files
              /\ messages'[s] = messages[s]
              /\ agent_history'[s] = agent_history[s]
              /\ plannerCalls'[s] = 0
              /\ scratchpad'[s] = <<>>]_vars

\* C4 witness: with an executor built and one exchange already in the logs,
\* a turn submitted after the upload was removed has ended with the warning.
C4_Witness ==
    \E s \in Sessions :
        /\ pc[s] = "rejected"
        /\ Len(trace[s]) = 2
        /\ trace[s][1].outcome = "completed"
        /\ Last(trace[s]).text = NoImageWarning
        /\ agent_executor[s] # None
        /\ Len(messages[s]) = 2
        /\ Len(agent_history[s]) = 2
        /\ Last(display[s]).role = "warning"

\* C5: while DEEPSEEK_API_KEY is unset or empty no turn runs, and a turn
\* submitted with a file uploaded ends rejected with the NotConfigured
\* error: the step that ends it leaves the messages list, agent_history and
\* the file system as they were and the executor makes no Planner call.
C5_NotConfiguredRejects ==
    /\ [](\A s \in Sessions :
             ~Truthy(apiKey) =>
                 /\ pc[s] \notin {"running", "completed", "failed"}
                 /\ plannerCalls[s] = 0
                 /\ \A i \in DOMAIN trace[s] : trace[s][i].outcome = "rejected")
    /\ [][\A s \in Sessions :
             (~Truthy(apiKey) /\ pc[s] = "validating" /\ uploaded_file[s] # NoFile
                 /\ pc'[s] # pc[s]) =>
                 /\ pc'[s] = "rejected"
                 /\ Last(trace'[s]).text = NotConfiguredError
                 /\ display'[s] = Append(display[s],
                                         [role |-> "error", content |-> NotConfiguredError])
                 /\ files' = files
                 /\ messages'[s] = messages[s]
                 /\ agent_history'[s] = agent_history[s]]_vars

\* C5 witness: with the key set to the empty string and a file uploaded,
\* two turns in a row have ended with the NotConfigured error.
C5_Witness ==
    \E s \in Sessions :
        /\ apiKey = ""
        /\ uploaded_file[s] # NoFile
        /\ pc[s] = "rejected"
        /\ Len(trace[s]) = 2
        /\ \A i \in DOMAIN trace[s] : trace[s][i].text = NotConfiguredError

C8_ArtifactIffNamedAndExists ==
    [][\A s \in Sessions :
          (pc[s] = "running" /\ pc'[s] = "completed") =>
              LET m == Last(messages'[s]) IN
                  /\ Len(messages'[s]) = Len(messages[s]) + 1
                  /\ m.role = "assistant"
                  /\ m.content = outcome[s].text
                  /\ ("image_path" \in DOMAIN m) <=>
                         (Contains(outcome[s].text, ARTIFACT) /\ files[ARTIFACT] # Absent)
                  /\ ("image_path" \in DOMAIN m) => m.image_path = ARTIFACT
                  /\ Last(display'[s]) = m
                  /\ Last(agent_history'[s]) = AIMessage(outcome[s].text)
                  /\ DOMAIN Last(agent_history'[s]) = {"type", "content"}
                  /\ Len(agent_history'[s]) = Len(agent_history[s]) + 2]_vars

\* C8 witness: of two completed turns whose answers both name the
\* artifact, the first got no attachment (no file yet) and the second got it.
C8_Witness ==
    \E s \in Sessions :
        /\ Len(messages[s]) = 4
        /\ Contains(messages[s][2].content, ARTIFACT)
        /\ "image_path" \notin DOMAIN messages[s][2]
        /\ Contains(messages[s][4].content, ARTIFACT)
        /\ "image_path" \in DOMAIN messages[s][4]
        /\ Len(agent_history[s]) = 4

\* The steps of a turn in progress.
TurnStep(s) ==
    \/ RejectNoImage(s)
    \/ RejectNotConfigured(s)
    \/ \E kind \in PlannerKinds : Prepare(s, kind)
    \/ PlanStep(s)
    \/ StopStep(s)
    \/ Respond(s)
    \/ Fail(s)

\* C9: a turn moves validating -> rejected, or validating -> running ->
\* completed or failed, starting from a session at rest; a turn in progress
\* can always take its next step; a run leaves running with exactly one of
\* an output (completed) and an error (failed); each ended turn is logged
\* once with its state; and agent_history grows only in the step to completed.
C9_TurnStateMachine ==
    /\ [](\A s \in Sessions :
             /\ pc[s] \in Resting \cup {"validating", "running"}
             /\ pc[s] \in {"validating", "running"} => ENABLED TurnStep(s)
             /\ pc[s] \in {"completed", "rejected", "failed"} =>
                    (trace[s] # <<>> /\ Last(trace[s]).outcome = pc[s])
             /\ \A i \in DOMAIN trace[s] :
                    trace[s][i].outcome \in {"completed", "rejected", "failed"})
    /\ [][\A s \in Sessions :
             /\ pc'[s] # pc[s] =>
                    \/ pc[s] \in Resting /\ pc'[s] \in {"validating", "idle"}
                    \/ pc[s] = "validating" /\ pc'[s] \in {"rejected", "running"}
                    \/ pc[s] = "running" /\ pc'[s] \in {"completed", "failed"}
             /\ (pc[s] = "running" /\ pc'[s] = "completed") =>
                    (outcome[s].kind = "output" /\ Last(trace'[s]).text = outcome[s].text)
             /\ (pc[s] = "running" /\ pc'[s] = "failed") =>
                    (outcome[s].kind = "raise"
                        /\ Last(trace'[s]).text = ErrorMsg(outcome[s].text))
             /\ (pc'[s] # pc[s] /\ pc'[s] \in {"completed", "rejected", "failed"}) =>
                    (Len(trace'[s]) = Len(trace[s]) + 1 /\ Last(trace'[s]).outcome = pc'[s])
             /\ (pc'[s] # pc[s] /\ pc'[s] \in {"validating", "running"}) =>
                    trace'[s] = trace[s]
             /\ agent_history'[s] # agent_history[s] =>
                    \/ pc[s] = "running" /\ pc'[s] = "completed"
                    \/ agent_history'[s] = <<>>]_vars

\* C9 witness: a session that has ended one turn rejected and one failed,
\* with nothing in agent_history.
C9_Witness ==
    \E s \in Sessions :
        /\ Len(trace[s]) = 2
        /\ trace[s][1].outcome = "rejected"
        /\ trace[s][2].outcome = "failed"
        /\ pc[s] = "failed"
        /\ agent_history[s] = <<>>

\* C10: the tools return a non-empty text and never raise, for every path
\* and description, whatever the file system holds and whether or not the
\* save succeeds; so every ToolResult in a scratchpad is a non-empty text and
\* no run ends on an exception from a tool.
C10_ToolsReturnText ==
    /\ \A p \in Paths :
           LET r == classify_lesion_tool(p, files) IN
               r.kind = "return" /\ r.text # <<>>
    /\ \A p \in Paths, d \in {<<>>, <<"nodule">>, ClassifyReport}, canSave \in BOOLEAN :
           LET r == segment_image_tool(p, d, files, canSave) IN
               r.kind = "return" /\ r.text # <<>>
    /\ \A s \in Sessions :
           /\ outcome[s].by # "tool"
           /\ \A i \in DOMAIN scratchpad[s] : scratchpad[s][i].result # <<>>

\* C10 witness: segment_image_tool could not save, returned its error text
\* as the ToolResult, and the run goes on.
C10_Witness ==
    \E s \in Sessions :
        /\ pc[s] = "running"
        /\ outcome[s].kind = "none"
        /\ Len(scratchpad[s]) = 2
        /\ scratchpad[s][2].call.tool = "segment_image_tool"
        /\ files[scratchpad[s][2].call.args.image_path] # Absent
        /\ scratchpad[s][2].result[1] = "error:"

\* The lesion descriptions the tools are tried on.
Descriptions == {<<>>, <<"nodule">>, ClassifyReport}

\* C11 (as claimed): every segment_image call recorded in a scratchpad
\* returned a path, and the file at that path exists.
C11_SegmentReturnsExistingPath ==
    \A s \in Sessions : \A i \in DOMAIN scratchpad[s] :
        scratchpad[s][i].call.tool = "segment_image_tool" =>
            /\ Len(scratchpad[s][i].result) = 1
            /\ scratchpad[s][i].result[1] \in Paths
            /\ files[scratchpad[s][i].result[1]] # Absent

\* C11 (amended): when the file at P exists and the save succeeds,
\* segment_image returns the artifact's path and the file at that path
\* exists on return, holding the image at P re-encoded; otherwise it returns
\* an error text naming P, which is no path, and writes nothing.
C11_SegmentPathOrErrorText ==
    /\ \A p \in Paths \ {ARTIFACT}, d \in Descriptions, canSave \in BOOLEAN :
           LET r == segment_image_tool(p, d, files, canSave) IN
               IF files[p] # Absent /\ canSave
               THEN /\ r.text = <<ARTIFACT>>
                    /\ r.fs[ARTIFACT] = SavePng(files[p])
                    /\ r.fs[ARTIFACT] # Absent
                    /\ \A q \in Paths \ {ARTIFACT} : r.fs[q] = files[q]
               ELSE /\ r.text = <<"error:", "cannot", "process", "image", p>>
                    /\ r.text[1] \notin Paths
                    /\ r.fs = files
    /\ \A s \in Sessions : \A i \in DOMAIN scratchpad[s] :
           scratchpad[s][i].call.tool = "segment_image_tool" =>
               \/ /\ scratchpad[s][i].result = <<ARTIFACT>>
                  /\ files[ARTIFACT] # Absent
               \/ scratchpad[s][i].result[1] = "error:"

\* C11 witness: a run holds one segment_image result that is the artifact's
\* path, with the re-encoded upload on disk.
C11_Witness ==
    \E s \in Sessions : \E i \in DOMAIN scratchpad[s] :
        /\ scratchpad[s][i].call.tool = "segment_image_tool"
        /\ scratchpad[s][i].result = <<ARTIFACT>>
        /\ files[ARTIFACT] = SavePng(files[scratchpad[s][i].call.args.image_path])

SharedKinds == {"answer", "segment", "classify_token", "raise"}

\* Two browser sessions of one process whose key is configured.
InitShared ==
    /\ open = Sessions
    /\ apiKey = "sk-1"
    /\ files = [p \in Paths |-> Absent]
    /\ uploaded_file = [s \in Sessions |-> NoFile]
    /\ messages = [s \in Sessions |-> <<>>]
    /\ agent_history = [s \in Sessions |-> <<>>]
    /\ display = [s \in Sessions |-> <<>>]
    /\ pc = [s \in Sessions |-> "idle"]
    /\ prompt = [s \in Sessions |-> <<>>]
    /\ agent_executor = [s \in Sessions |-> None]
    /\ agent_input = [s \in Sessions |-> NoInput]
    /\ planner = [s \in Sessions |-> None]
    /\ scratchpad = [s \in Sessions |-> <<>>]
    /\ iterations = [s \in Sessions |-> 0]
    /\ plannerCalls = [s \in Sessions |-> 0]
    /\ outcome = [s \in Sessions |-> NoOutcome]
    /\ trace = [s \in Sessions |-> <<>>]
    /\ segmented = [s \in Sessions |-> FALSE]

\* Streamlit runs each session's script in a thread of its own: the steps
\* of the two sessions interleave.
NextShared ==
    \/ \E s \in Sessions, f \in Uploads \cup {NoFile} : Upload(s, f)
    \/ \E s \in Sessions, p \in Prompts :
           Len(trace[s]) < SharedTurns /\ Submit(s, p)
    \/ \E s \in Sessions : RejectNoImage(s)
    \/ \E s \in Sessions, kind \in SharedKinds : Prepare(s, kind)
    \/ \E s \in Sessions : PlanStep(s)
    \/ \E s \in Sessions : Respond(s)
    \/ \E s \in Sessions : Fail(s)

SpecShared == InitShared /\ [][NextShared]_vars

\* A step taken by session b: its script moved, it picked a file or its
\* executor called the Planner.
StepOf(b) ==
    \/ pc'[b] # pc[b]
    \/ uploaded_file'[b] # uploaded_file[b]
    \/ plannerCalls'[b] # plannerCalls[b]

\* C13 (as claimed): a step of session b changes neither session a's
\* agent_history nor, while a's turn runs, the bytes of the file at the
\* image_path a's turn handed to its executor.
C13_SessionsIsolated ==
    [][\A a \in Sessions : \A b \in Sessions \ {a} :
          StepOf(b) =>
              /\ agent_history'[a] = agent_history[a]
              /\ pc[a] = "running" =>
                     files'[agent_input[a].image_path] =
                         files[agent_input[a].image_path]]_vars

\* The scratchpad entries of all running invokes.
PadEntries == UNION {Range(scratchpad[s]) : s \in Sessions}

\* C14: the tools keep no state between calls.  Two classify_lesion calls
\* with the same path have the same report, whatever ran between them, and
\* each has a scratchpad entry of its own; the report does not depend on
\* the file system, which classify_lesion leaves as it was; a segment_image
\* result is determined by its arguments and the file system it ran on.
C14_ToolsStateless ==
    /\ \A e1 \in PadEntries, e2 \in PadEntries :
           (e1.call.tool = "classify_lesion_tool" /\ e1.call = e2.call) =>
               e1.result = e2.result
    /\ \A s \in Sessions :
           (planner[s] = "batch" /\ scratchpad[s] # <<>>) =>
               /\ Len(scratchpad[s]) = 3
               /\ scratchpad[s][1].call = scratchpad[s][3].call
               /\ scratchpad[s][1].result = scratchpad[s][3].result
    /\ \A p \in Paths :
           /\ classify_lesion_tool(p, files).text = ClassifyReport
           /\ classify_lesion_tool(p, files).fs = files
           /\ \A canSave \in BOOLEAN :
                  LET r1 == segment_image_tool(p, <<"nodule">>, files, canSave)
                      r2 == segment_image_tool(
                                p, <<"nodule">>,
                                classify_lesion_tool(p, files).fs, canSave)
                  IN  r1.text = r2.text /\ r1.fs = r2.fs

\* C14 witness: one run classified the same path before and after a
\* segment_image call that wrote the artifact, with equal reports in two
\* entries.
C14_Witness ==
    \E s \in Sessions :
        /\ Len(scratchpad[s]) = 3
        /\ scratchpad[s][1].call.tool = "classify_lesion_tool"
        /\ scratchpad[s][3].call = scratchpad[s][1].call
        /\ scratchpad[s][2].call.tool = "segment_image_tool"
        /\ scratchpad[s][2].result = <<ARTIFACT>>
        /\ files[ARTIFACT] # Absent
        /\ scratchpad[s][3].result = scratchpad[s][1].result

\* C15: the scratchpad of a run starts empty and only grows at its end
\* while the run goes on; the Planner's decision is the one for the whole
\* scratchpad so far, and the calls of one decision are appended in the
\* order the Planner returned them, one entry per call.
C15_ScratchpadAppendOnly ==
    [][\A s \in Sessions :
          /\ (pc[s] # "running" /\ pc'[s] = "running") => scratchpad'[s] = <<>>
          /\ (pc[s] = "running" /\ outcome[s].kind = "none"
                 /\ pc'[s] = "running" /\ outcome'[s].kind = "none") =>
                 /\ Len(scratchpad'[s]) >= Len(scratchpad[s])
                 /\ SubSeq(scratchpad'[s], 1, Len(scratchpad[s])) = scratchpad[s]
          /\ (pc[s] = "running" /\ outcome[s].kind = "none"
                 /\ plannerCalls'[s] = plannerCalls[s] + 1
                 /\ outcome'[s].kind = "none") =>
                 LET d == Planner(planner[s], agent_input[s].input,
                                  agent_input[s].image_path,
                                  agent_input[s].chat_history, scratchpad[s])
                     n == Len(scratchpad[s])
                 IN  /\ d.kind = "tools"
                     /\ Len(scratchpad'[s]) = n + Len(d.calls)
                     /\ \A k \in 1..Len(d.calls) :
                            scratchpad'[s][n + k].call = d.calls[k]]_vars

\* C15 witness: a second run of a session, started after a run that used
\* tools, holds the three entries of one Planner decision in its order.
C15_Witness ==
    \E s \in Sessions :
        /\ Len(trace[s]) = 1
        /\ trace[s][1].by = "final"
        /\ pc[s] = "running"
        /\ plannerCalls[s] = 1
        /\ planner[s] = "batch"
        /\ [k \in 1..Len(scratchpad[s]) |-> scratchpad[s][k].call.tool] =
               <<"classify_lesion_tool", "segment_image_tool", "classify_lesion_tool">>

\* C16: whenever agent_executor.invoke is entered, the session has an
\* uploaded file, the image_path handed to the executor is that file's
\* temporary path, and the step that entered invoke has written the
\* uploaded bytes to that path.
C16_InvokeHasSavedImage ==
    [][\A s \in Sessions :
          (pc[s] # "running" /\ pc'[s] = "running") =>
              /\ uploaded_file[s] # NoFile
              /\ uploaded_file'[s] = uploaded_file[s]
              /\ agent_input'[s].image_path =
                     PathJoin(TEMP_DIR, uploaded_file[s].name)
              /\ files'[agent_input'[s].image_path] = uploaded_file[s].data
              /\ files'[agent_input'[s].image_path] # Absent]_vars

\* C16 witness: the second run of a session has just been entered, with the
\* upload's bytes at the temporary path handed to the executor.
C16_Witness ==
    \E s \in Sessions :
        /\ Len(trace[s]) = 1
        /\ trace[s][1].outcome # "rejected"
        /\ pc[s] = "running"
        /\ plannerCalls[s] = 0
        /\ agent_input[s].image_path = PathJoin(TEMP_DIR, uploaded_file[s].name)
        /\ files[agent_input[s].image_path] = "xray2"

\* C17: the chat_history a run's executor is given is the list of the
\* Turns of the session's completed turns, in order: a user Turn then an
\* assistant Turn for each, so of even length; the turn that is running
\* has no Turn in it, its input reaches the executor as `input` only.
C17_ChatHistoryIsEarlierExchanges ==
    \A s \in Sessions :
        pc[s] = "running" =>
            LET h == agent_input[s].chat_history IN
                /\ h = Exchanges(trace[s])
                /\ h = agent_history[s]
                /\ Len(h) = 2 * NCompleted(trace[s])
                /\ \A i \in DOMAIN h :
                       h[i].type = IF i % 2 = 1 THEN "human" ELSE "ai"
                /\ agent_input[s].input = prompt[s]

\* C17 witness: a run whose input repeats the input of the completed turn
\* before it: chat_history holds that turn's two Turns and no more.
C17_Witness ==
    \E s \in Sessions :
        /\ pc[s] = "running"
        /\ Len(trace[s]) = 1
        /\ trace[s][1].outcome = "completed"
        /\ trace[s][1].input = agent_input[s].input
        /\ agent_input[s].chat_history =
               <<HumanMessage(trace[s][1].input), AIMessage(trace[s][1].text)>>

\* The messages the ended turns of a session are to have stored: none for
\* a rejected turn, the user message and the answer or the error message
\* for the others.
RECURSIVE Transcript(_)
Transcript(tr) ==
    IF tr = <<>> THEN <<>>
    ELSE (IF Head(tr).outcome = "rejected" THEN <<>>
          ELSE <<[role |-> "user", content |-> Head(tr).input],
                 [role |-> "assistant", content |-> Head(tr).text]>>)
         \o Transcript(Tail(tr))

\* A stored message without its attachment.
WithoutAttachment(m) == [role |-> m.role, content |-> m.content]

\* A stored message as a Turn of agent_history.
AsTurn(m) ==
    IF m.role = "user" THEN HumanMessage(m.content) ELSE AIMessage(m.content)

\* The transcript msgs of the validated turns `turns`, with the pairs of
\* the failed ones removed and the others turned into Turns.
RECURSIVE MemoryOf(_, _)
MemoryOf(msgs, turns) ==
    IF turns = <<>> THEN <<>>
    ELSE (IF Head(turns).outcome = "failed" THEN <<>>
          ELSE <<AsTurn(msgs[1]), AsTurn(msgs[2])>>)
         \o MemoryOf(SubSeq(msgs, 3, Len(msgs)), Tail(turns))

\* The turns of a log that passed validation.
Validated(tr) == SelectSeq(tr, LAMBDA e : e.outcome # "rejected")

\* C18: the messages list holds, for each ended turn that passed
\* validation, the user message and then the answer or the error message,
\* and nothing for a rejected turn; a running turn has added its user
\* message only; and agent_history is the messages list of the ended turns
\* with the pairs of failed turns removed and the attachments dropped.
C18_TranscriptAndMemoryRelated ==
    \A s \in Sessions :
        LET shown == [i \in DOMAIN messages[s] |-> WithoutAttachment(messages[s][i])]
            ended == Transcript(trace[s])
        IN  /\ Len(ended) = 2 * Len(Validated(trace[s]))
            /\ pc[s] # "running" => shown = ended
            /\ pc[s] = "running" =>
                   shown = Append(ended, [role |-> "user", content |-> prompt[s]])
            /\ agent_history[s] =
                   MemoryOf(SubSeq(messages[s], 1, Len(ended)), Validated(trace[s]))
            /\ \A i \in DOMAIN agent_history[s] :
                   DOMAIN agent_history[s][i] = {"type", "content"}

\* C18 witness: a turn completed with the artifact attached and the next
\* one failed: four messages stored, the first two of them in agent_history
\* as Turns without the attachment.
C18_Witness ==
    \E s \in Sessions :
        /\ pc[s] = "failed"
        /\ Len(trace[s]) = 2
        /\ trace[s][1].outcome = "completed"
        /\ Len(messages[s]) = 4
        /\ "image_path" \in DOMAIN messages[s][2]
        /\ IsErrorMsg(messages[s][4].content)
        /\ agent_history[s] = <<AsTurn(messages[s][1]), AsTurn(messages[s][2])>>

\* C19 (as claimed): the step that completes a turn attaches the artifact
\* only when a segment_image_tool call of that turn's own run saved it.
C19_ArtifactFromThisRun ==
    [][\A s \in Sessions :
          (pc[s] = "running" /\ pc'[s] = "completed"
              /\ "image_path" \in DOMAIN Last(messages'[s])) =>
              segmented[s]]_vars

====
